---- MODULE Spec2Model ----
(***************************************************************************)
(* A model of codewise (src/src/index.ts): the file selection, the two     *)
(* tree renderers, the per-file formatting, the configuration merge and    *)
(* the top-level run.                                                      *)
(*                                                                         *)
(* A path is a sequence of segment names.  A glob or gitignore pattern is  *)
(* a sequence of segment tokens: a literal name, "*", "*.log", "*.ts" or   *)
(* "**".  The pattern "./out.md" is <<".", "out.md">> and the pattern      *)
(* "/work/out.md" is <<"", "work", "out.md">>.                             *)
(***************************************************************************)
EXTENDS Integers, Sequences, FiniteSets, TLC

VARIABLES
    fs,            \* the working directory: relative path -> entry
    gitignore,     \* the rules of ./.gitignore (meaningful when the file exists)
    options,       \* program.opts(): the command line
    configFile,    \* what the JSON configuration file holds
    config,        \* the effective Config
    pc,            \* where main() is
    ig,            \* the Ignore ruleset built by createIgnore
    allFiles,      \* the glob expansion that is being filtered
    includedFiles, \* main's includedFiles, the list shown for confirmation
    context,       \* generateCodeContext's document
    written,       \* the content of the output file after writeToFile
    log,           \* the messages given to the logger, in order
    exitCode,      \* the process's exit code
    proceed,       \* main's proceed: "unset" until the user has answered
    ctxFiles,      \* generateCodeContext's includedFiles
    envSteps,      \* how many times other processes changed the directory
    input,         \* the argument of the pure function under study
    result         \* its result

vars == <<fs, gitignore, options, configFile, config, pc, ig, allFiles,
          includedFiles, proceed, ctxFiles, context, written, log, exitCode, envSteps,
          input, result>>

(***************************************************************************)
(* Bounds                                                                  *)
(***************************************************************************)
MaxSize == 2
MaxEnvSteps == 1
MaxLen == 3
MaxFiles == 3

None == "none"

(***************************************************************************)
(* Sequences                                                               *)
(***************************************************************************)
Last(s) == s[Len(s)]

Front(s) == SubSeq(s, 1, Len(s) - 1)

IsPrefix(s, t) == Len(s) <= Len(t) /\ SubSeq(t, 1, Len(s)) = s

Range(s) == {s[i] : i \in 1..Len(s)}

RECURSIVE Flatten(_)
Flatten(ss) == IF ss = <<>> THEN <<>> ELSE Head(ss) \o Flatten(Tail(ss))

SelectSeqBy(s, keep) == Flatten([i \in 1..Len(s) |-> IF s[i] \in keep THEN <<s[i]>> ELSE <<>>])

(***************************************************************************)
(* Paths: process.cwd(), path.join, path.relative                          *)
(***************************************************************************)
Cwd == <<"", "work">>

PathJoin(dir, file) == dir \o file

PathRelative(from, to) ==
    IF IsPrefix(from, to) THEN SubSeq(to, Len(from) + 1, Len(to))
    ELSE [i \in 1..Len(from) |-> ".."] \o to

\* The file a path written on the command line names: "." segments drop out,
\* an absolute path is taken as it is, a relative one is under the cwd.
PathResolve(written_as) ==
    LET clean == SelectSeqBy(written_as, Range(written_as) \ {"."})
    IN IF clean # <<>> /\ Head(clean) = "" THEN clean ELSE PathJoin(Cwd, clean)

(***************************************************************************)
(* Pattern matching: glob (minimatch) and gitignore (the ignore package)   *)
(***************************************************************************)
extname(name) ==
    CASE name \in {"a.ts", "b.ts"} -> ".ts"
      [] name \in {"app.log"} -> ".log"
      [] name \in {"out.md"} -> ".md"
      [] name \in {"x.js"} -> ".js"
      [] OTHER -> ""

SegMatch(tok, name) ==
    \/ tok = "*"
    \/ tok = "*.log" /\ extname(name) = ".log"
    \/ tok = "*.ts" /\ extname(name) = ".ts"
    \/ tok = name

\* minimatch: the whole path against the whole pattern; "**" stands for zero
\* or more segments.
RECURSIVE GlobMatch(_, _)
GlobMatch(pat, path) ==
    IF pat = <<>> THEN path = <<>>
    ELSE IF Head(pat) = "**"
    THEN GlobMatch(Tail(pat), path) \/ (path # <<>> /\ GlobMatch(pat, Tail(path)))
    ELSE path # <<>> /\ SegMatch(Head(pat), Head(path)) /\ GlobMatch(Tail(pat), Tail(path))

\* A gitignore pattern holding a slash is anchored at the root; a trailing
\* "**" stands for everything inside, one segment at least.
RECURSIVE AnchoredMatch(_, _)
AnchoredMatch(pat, path) ==
    IF pat = <<>> THEN path = <<>>
    ELSE IF pat = <<"**">> THEN path # <<>>
    ELSE IF Head(pat) = "**"
    THEN AnchoredMatch(Tail(pat), path) \/ (path # <<>> /\ AnchoredMatch(pat, Tail(path)))
    ELSE path # <<>> /\ SegMatch(Head(pat), Head(path)) /\ AnchoredMatch(Tail(pat), Tail(path))

\* rule.regex.test(path): a pattern without a slash is tried on the last
\* segment alone; a leading slash only anchors.
IgnoreRuleMatch(pat, path) ==
    IF Len(pat) = 1 THEN SegMatch(pat[1], Last(path))
    ELSE AnchoredMatch(IF Head(pat) = "" THEN Tail(pat) ELSE pat, path)

\* Ignore._testOne: the last rule that matches decides.
TestOne(rules, path) ==
    LET hits == {i \in 1..Len(rules) : IgnoreRuleMatch(rules[i].pat, path)}
    IN hits # {} /\ ~rules[CHOOSE i \in hits : \A j \in hits : j <= i].neg

\* Ignore.ignores: a path under an ignored directory is ignored, and no rule
\* re-includes it.
RECURSIVE Ignores(_, _)
Ignores(rules, path) ==
    IF Len(path) > 1 /\ Ignores(rules, Front(path)) THEN TRUE
    ELSE TestOne(rules, path)

Rule(pat) == [neg |-> FALSE, pat |-> pat]

(***************************************************************************)
(* The filesystem.  An entry is absent, a directory, or a file with its    *)
(* content; stats.size is the content's length.                            *)
(***************************************************************************)
Absent == [kind |-> "none", content |-> <<>>, readable |-> FALSE]

Dir == [kind |-> "dir", content |-> <<>>, readable |-> TRUE]

File(content) == [kind |-> "file", content |-> content, readable |-> TRUE]

Blob(n) == [i \in 1..n |-> "x"]

\* The order in which the filesystem lists names (readdir, and the glob walk).
ListingOrder ==
    <<".git", ".gitignore", "a.ts", "app.log", "b.ts", "config", "dist", "node_modules",
      "o.js", "out.md", "src", "x.js", "y.js">>

\* fs.statSync / fs.existsSync of an absolute path.
Stat(path) ==
    LET rel == PathRelative(Cwd, path)
    IN IF rel \in DOMAIN fs THEN fs[rel] ELSE Absent

ExistsSync(path) == Stat(path).kind # "none"

\* fs.readdirSync(dir): the names of the entries of dir.
ReadDir(dir) ==
    LET rel == PathRelative(Cwd, dir)
        here == {n \in Range(ListingOrder) :
                    rel \o <<n>> \in DOMAIN fs /\ fs[rel \o <<n>>].kind # "none"}
    IN SelectSeqBy(ListingOrder, here)

(***************************************************************************)
(* createIgnore                                                            *)
(***************************************************************************)
CreateIgnore(cfg, outputFile) ==
    [i \in 1..Len(cfg.exclude) |-> Rule(cfg.exclude[i])] \o <<Rule(outputFile)>>
        \o (IF ExistsSync(PathJoin(Cwd, <<".gitignore">>)) THEN gitignore ELSE <<>>)

(***************************************************************************)
(* generateFullFileTree.  A tree is a sequence of lines, a line a sequence *)
(* of atoms: the prefix atoms, the connector, the name.  "|-- " stands for *)
(* the tee connector, "+-- " for the corner, "|   " for the vertical bar.  *)
(***************************************************************************)
Collapsed == {"node_modules", ".git"}

IsCollapsedOnlyNodeModules(file) == file = "node_modules"

\* file === 'node_modules' || file === '.git'
IsCollapsed(file) == file \in Collapsed

Connector(isLast) == IF isLast THEN "+-- " ELSE "|-- "

Continuation(isLast) == IF isLast THEN "    " ELSE "|   "

RECURSIVE GenerateFullFileTree(_, _, _)
GenerateFullFileTree(dir, rules, prefix) ==
    LET files == ReadDir(dir)
        Entry(index) ==
            LET file == files[index]
                filePath == PathJoin(dir, <<file>>)
                relativePath == PathRelative(Cwd, filePath)
                isLast == index = Len(files)
                isIgnored == Ignores(rules, relativePath)
            IN <<prefix \o <<Connector(isLast), file>>>> \o
               (IF Stat(filePath).kind = "dir"
                THEN IF IsCollapsed(file)
                     THEN <<prefix \o <<Continuation(isLast), "+-- ", "...">>>>
                     ELSE IF ~isIgnored
                     THEN GenerateFullFileTree(filePath, rules, prefix \o <<Continuation(isLast)>>)
                     ELSE <<>>
                ELSE <<>>)
    IN Flatten([index \in 1..Len(files) |-> Entry(index)])

(***************************************************************************)
(* getIncludedFiles                                                        *)
(***************************************************************************)
RECURSIVE WalkFiles(_)
WalkFiles(dir) ==
    LET names == ReadDir(dir)
    IN Flatten([i \in 1..Len(names) |->
            IF Stat(PathJoin(dir, <<names[i]>>)).kind = "dir"
            THEN WalkFiles(PathJoin(dir, <<names[i]>>))
            ELSE <<PathRelative(Cwd, PathJoin(dir, <<names[i]>>))>>])

GlobPattern(cfg) == IF Len(cfg.include) > 0 THEN cfg.include ELSE << <<"**", "*">> >>

GlobIgnore(cfg) == << <<"**", "node_modules", "**">>, <<"**", ".git", "**">> >> \o cfg.exclude

\* glob(globPattern, globOptions): the files (nodir, dot) under dir that match a
\* pattern and no ignore pattern, each once, in the walk's order.
Glob(dir, cfg) ==
    LET found == WalkFiles(dir)
        keep == {f \in Range(found) :
                    /\ \E i \in 1..Len(GlobPattern(cfg)) : GlobMatch(GlobPattern(cfg)[i], f)
                    /\ ~\E i \in 1..Len(GlobIgnore(cfg)) : GlobMatch(GlobIgnore(cfg)[i], f)}
    IN SelectSeqBy(found, keep)

\* fs.statSync throws for a path that is no longer there.
StatThrows(dir, files) == \E i \in 1..Len(files) : ~ExistsSync(PathJoin(dir, files[i]))

IsIncludedWhateverSize(dir, cfg, rules, file) == ~Ignores(rules, file)

IsIncluded(dir, cfg, rules, file) ==
    /\ ~Ignores(rules, file)
    /\ Len(Stat(PathJoin(dir, file)).content) <= cfg.maxFileSize

FilterIncluded(dir, cfg, rules, files) ==
    SelectSeqBy(files, {f \in Range(files) : IsIncluded(dir, cfg, rules, f)})

(***************************************************************************)
(* formatIncludedFiles.  fileTree, an object of nested objects, is kept    *)
(* flat: keys maps each object (named by the path that leads to it) to its *)
(* own property names in the order they were created; leaf holds the paths *)
(* whose value is null.  Builtin stands for the inherited value that a     *)
(* name of Object.prototype gives (currentNode["constructor"]): it is a    *)
(* truthy object that no own property of fileTree leads to.                *)
(***************************************************************************)
Builtin == <<"[[builtin]]">>

InheritedNames == {"constructor"}

EmptyTree == [keys |-> (<<>> :> <<>>) @@ (Builtin :> <<>>), leaf |-> {}]

HasOwn(tree, node, part) == part \in Range(tree.keys[node])

\* currentNode[part] is truthy: an object of its own, or an inherited value.
Truthy(tree, node, part) ==
    IF HasOwn(tree, node, part) THEN (node \o <<part>>) \in DOMAIN tree.keys
    ELSE part \in InheritedNames

\* currentNode[part]
GetNode(tree, node, part) ==
    IF HasOwn(tree, node, part) THEN node \o <<part>> ELSE Builtin

AddKey(keys, part) == IF part \in Range(keys) THEN keys ELSE Append(keys, part)

\* currentNode[part] = null
SetNull(tree, node, part) ==
    [keys |-> [tree.keys EXCEPT ![node] = AddKey(@, part)],
     leaf |-> tree.leaf \cup {node \o <<part>>}]

\* currentNode[part] = {}
SetObject(tree, node, part) ==
    [keys |-> ((node \o <<part>>) :> <<>>) @@ [tree.keys EXCEPT ![node] = AddKey(@, part)],
     leaf |-> tree.leaf \ {node \o <<part>>}]

RECURSIVE InsertParts(_, _, _)
InsertParts(tree, currentNode, pathParts) ==
    LET part == Head(pathParts)
    IN IF Len(pathParts) = 1
       THEN IF ~Truthy(tree, currentNode, part) THEN SetNull(tree, currentNode, part) ELSE tree
       ELSE LET next == IF ~Truthy(tree, currentNode, part)
                        THEN SetObject(tree, currentNode, part) ELSE tree
            IN InsertParts(next, GetNode(next, currentNode, part), Tail(pathParts))

RECURSIVE BuildTree(_, _)
BuildTree(tree, files) ==
    IF files = <<>> THEN tree
    ELSE BuildTree(InsertParts(tree, <<>>, Head(files)), Tail(files))

\* The value of a name that is a canonical array index, -1 for any other name.
ArrayIndex(name) ==
    CASE name = "1" -> 1
      [] name = "2" -> 2
      [] name = "10" -> 10
      [] OTHER -> -1

RECURSIVE Ascending(_)
Ascending(names) ==
    IF names = {} THEN <<>>
    ELSE LET least == CHOOSE n \in names : \A m \in names : ArrayIndex(n) <= ArrayIndex(m)
         IN <<least>> \o Ascending(names \ {least})

\* Object.entries(node): the array indices in ascending order, then the other
\* names in the order of their creation.
OwnKeys(keys) ==
    LET indices == {k \in Range(keys) : ArrayIndex(k) >= 0}
    IN Ascending(indices) \o SelectSeqBy(keys, Range(keys) \ indices)

RECURSIVE RenderTree(_, _, _)
RenderTree(tree, node, prefix) ==
    LET entries == OwnKeys(tree.keys[node])
        Entry(index) ==
            LET key == entries[index]
                isLast == index = Len(entries)
            IN <<prefix \o <<Connector(isLast), key>>>> \o
               (IF (node \o <<key>>) \notin tree.leaf
                THEN RenderTree(tree, node \o <<key>>, prefix \o <<Continuation(isLast)>>)
                ELSE <<>>)
    IN Flatten([index \in 1..Len(entries) |-> Entry(index)])

FormatIncludedFiles(files) == RenderTree(BuildTree(EmptyTree, files), <<>>, <<>>)

\* A tree as the string the code builds: every line ends with a line break.
TreeText(lines) == Flatten([i \in 1..Len(lines) |-> lines[i] \o <<"\n">>])

(***************************************************************************)
(* getFileContent.  A text is a sequence of atoms; the CDATA markers and   *)
(* the file's content are spelled character by character; "[fence]" is    *)
(* the three backquotes of a Markdown fence.                               *)
(***************************************************************************)
RECURSIVE PathText(_)
PathText(path) ==
    IF Len(path) <= 1 THEN path
    ELSE <<Head(path), "/">> \o PathText(Tail(path))

CDataOpen == <<"<", "!", "[", "C", "D", "A", "T", "A", "[">>

CDataClose == <<"]", "]", ">">>

\* fs.readFileSync throws: the reason, or None when the read succeeds.
ReadError(filePath) ==
    CASE Stat(filePath).kind = "none" -> "ENOENT"
      [] Stat(filePath).kind = "dir" -> "EISDIR"
      [] ~Stat(filePath).readable -> "EACCES"
      [] OTHER -> None

\* The text of a file that was read, in the configured format.
FormatContent(relativePath, content, cfg) ==
    IF cfg.outputFormat = "xml"
    THEN <<"<file path=\"">> \o PathText(relativePath) \o <<"\">", "\n">>
            \o CDataOpen \o <<"\n">> \o content \o <<"\n">> \o CDataClose
            \o <<"\n", "</file>", "\n", "\n">>
    ELSE <<"[fence]">> \o PathText(relativePath) \o <<"\n">> \o content
            \o <<"\n", "[fence]", "\n", "\n">>

GetFileContentSilent(filePath, cfg) ==
    IF ReadError(filePath) = None
    THEN FormatContent(PathRelative(Cwd, filePath), Stat(filePath).content, cfg)
    ELSE <<>>

GetFileContent(filePath, cfg) ==
    IF ReadError(filePath) = None
    THEN FormatContent(PathRelative(Cwd, filePath), Stat(filePath).content, cfg)
    ELSE <<"Error reading file ">> \o PathText(filePath)
            \o <<": ", ReadError(filePath), "\n", "\n">>

(***************************************************************************)
(* Configuration                                                           *)
(***************************************************************************)
DefaultExclude ==
    << <<"node_modules", "**">>, <<".git", "**">>, <<"package-lock.json">>, <<"yarn.lock">> >>

DEFAULT_CONFIG ==
    [include |-> << <<"**", "*">> >>, exclude |-> DefaultExclude,
     maxFileSize |-> 100 * 1024, outputFormat |-> "markdown"]

\* program.opts() when no flag is given: commander fills in the defaults.
DefaultOptions ==
    [config |-> "codewise.json", output |-> <<"codewise-output.md">>, format |-> "markdown",
     maxSize |-> "100", include |-> <<>>, exclude |-> <<>>, given |-> {}]

(***************************************************************************)
(* The run: main() from createIgnore on, in a directory that other         *)
(* processes may change while the run waits.                               *)
(***************************************************************************)
\* The sizes of the files: a small one and a large one.
Sizes == {1, MaxSize}

MainFiles == {<<"a.ts">>, <<"app.log">>, <<"out.md">>, <<"node_modules", "x.js">>}

IncludeChoices ==
    {<<>>, << <<"**", "*">> >>, << <<"*.ts">>, <<"**", "*.ts">>, <<"out.md">> >>}

\* The configurations of the runs: the default exclusions with Markdown
\* output, or no exclusion at all with XML output.
ConfigChoices ==
    {[include |-> i, exclude |-> DefaultExclude, maxFileSize |-> m, outputFormat |-> "markdown"] :
        i \in IncludeChoices, m \in Sizes}
    \cup
    {[include |-> i, exclude |-> <<>>, maxFileSize |-> m, outputFormat |-> "xml"] :
        i \in IncludeChoices, m \in Sizes}

\* The ways the output file ./out.md is written after -o.
OutputChoices == {<<"out.md">>, <<".", "out.md">>, Cwd \o <<"out.md">>}

GitignoreChoices ==
    {<<Rule(<<"*.log">>)>>, <<Rule(<<"*.log">>), [neg |-> TRUE, pat |-> <<"app.log">>]>>}

Answers == {"y", "YES", "n", ""}

ToLowerCase(answer) == IF answer = "YES" THEN "yes" ELSE answer

\* promptUser's verdict on the answer typed.
Proceed(answer) == ToLowerCase(answer) = "y" \/ ToLowerCase(answer) = "yes"

Idle ==
    /\ ig = <<>> /\ allFiles = <<>> /\ includedFiles = <<>> /\ ctxFiles = <<>>
    /\ proceed = "unset"
    /\ context = <<>> /\ written = <<>> /\ log = <<>> /\ exitCode = -1 /\ envSteps = 0

\* The files that other processes touch during the run (what happens inside
\* node_modules is seen by no step of the run).
EnvFiles == {p \in MainFiles : Head(p) # "node_modules"}

\* The sizes a file of the directory may have at the start, 0 for a missing file.
StartSizes(p) ==
    IF p \in {<<"a.ts">>, <<"out.md">>} THEN {0} \cup Sizes
    ELSE IF p = <<"app.log">> THEN {0, 1} ELSE {1}

Init ==
    /\ \E sizes \in [MainFiles -> 0..MaxSize], unreadable \in BOOLEAN, hasGitignore \in BOOLEAN :
          /\ \A p \in MainFiles : sizes[p] \in StartSizes(p)
          /\ unreadable => sizes[<<"a.ts">>] > 0
          /\ fs = [p \in MainFiles |->
                    IF sizes[p] = 0 THEN Absent
                    ELSE [File(Blob(sizes[p])) EXCEPT
                            !.readable = ~(unreadable /\ p = <<"a.ts">>)]]
               @@ (<<"node_modules">> :> Dir)
               @@ (<<".gitignore">> :> IF hasGitignore THEN File(Blob(1)) ELSE Absent)
    /\ gitignore \in GitignoreChoices
    /\ (fs[<<".gitignore">>].kind = "none" => gitignore = <<Rule(<<"*.log">>)>>)
    /\ config \in ConfigChoices
    /\ \E o \in OutputChoices : options = [DefaultOptions EXCEPT !.output = o]
    /\ configFile = None
    /\ pc = "start"
    /\ Idle
    /\ input = <<>> /\ result = <<>>

\* main().catch: the error is logged and the process exits with code 1.
Crash ==
    /\ log' = Append(log, "An error occurred:")
    /\ exitCode' = 1
    /\ pc' = "exit"

\* const ig = createIgnore(...); then getIncludedFiles starts its glob.
Start ==
    /\ pc = "start"
    /\ ig' = CreateIgnore(config, options.output)
    /\ pc' = "glob1"
    /\ UNCHANGED <<proceed, fs, gitignore, options, configFile, config, allFiles, includedFiles,
                   ctxFiles, context, written, log, exitCode, envSteps, input, result>>

\* await glob(...) of main's getIncludedFiles
GlobDone ==
    /\ pc = "glob1"
    /\ allFiles' = Glob(Cwd, config)
    /\ pc' = "filter1"
    /\ UNCHANGED <<proceed, fs, gitignore, options, configFile, config, ig, includedFiles,
                   ctxFiles, context, written, log, exitCode, envSteps, input, result>>

\* allFiles.filter(...) of main's getIncludedFiles, then the list is shown.
FilterAndShow ==
    /\ pc = "filter1"
    /\ IF StatThrows(Cwd, allFiles)
       THEN Crash /\ UNCHANGED includedFiles
       ELSE /\ includedFiles' = FilterIncluded(Cwd, config, ig, allFiles)
            /\ log' = Append(log, "Files to be included:")
            /\ pc' = "prompt"
            /\ UNCHANGED exitCode
    /\ UNCHANGED <<proceed, fs, gitignore, options, configFile, config, ig, allFiles,
                   ctxFiles, context, written, envSteps, input, result>>

ShouldGenerateAlways(answered) == TRUE

\* if (proceed)
ShouldGenerate(answered) == answered = "yes"

\* The user answers; generateCodeContext runs up to its await.
Answer ==
    /\ pc = "prompt"
    /\ \E answer \in Answers :
          /\ proceed' = IF Proceed(answer) THEN "yes" ELSE "no"
          /\ IF ShouldGenerate(proceed')
             THEN /\ log' = Append(log, "Generating code context...")
                  /\ context' = << <<"Full File Tree:", "\n", "\n">>,
                                   TreeText(GenerateFullFileTree(Cwd, ig, <<>>)),
                                   <<"\n", "Included Files:", "\n", "\n">> >>
                  /\ pc' = "glob2"
                  /\ UNCHANGED exitCode
             ELSE /\ log' = Append(log, "Context generation aborted.")
                  /\ exitCode' = 0
                  /\ pc' = "exit"
                  /\ UNCHANGED context
    /\ UNCHANGED <<fs, gitignore, options, configFile, config, ig, allFiles, includedFiles,
                   ctxFiles, written, envSteps, input, result>>

\* await glob(...) of generateCodeContext's getIncludedFiles
GlobAgain ==
    /\ pc = "glob2"
    /\ allFiles' = Glob(Cwd, config)
    /\ pc' = "filter2"
    /\ UNCHANGED <<proceed, fs, gitignore, options, configFile, config, ig, includedFiles,
                   ctxFiles, context, written, log, exitCode, envSteps, input, result>>

\* The rest of generateCodeContext: the filter, the inclusion tree, the blocks.
Assemble ==
    /\ pc = "filter2"
    /\ IF StatThrows(Cwd, allFiles)
       THEN Crash /\ UNCHANGED <<ctxFiles, context>>
       ELSE /\ ctxFiles' = FilterIncluded(Cwd, config, ig, allFiles)
            /\ context' = context
                  \o << TreeText(FormatIncludedFiles(ctxFiles')),
                        <<"\n", "Code Context:", "\n", "\n">> >>
                  \o [i \in 1..Len(ctxFiles') |->
                        GetFileContent(PathJoin(Cwd, ctxFiles'[i]), config)]
            /\ pc' = "write"
            /\ UNCHANGED <<log, exitCode>>
    /\ UNCHANGED <<proceed, fs, gitignore, options, configFile, config, ig, allFiles, includedFiles,
                   written, envSteps, input, result>>

\* writeToFile, whose write may fail, and the end of main.
WriteToFile ==
    /\ pc = "write"
    /\ \E ok \in BOOLEAN :
          /\ written' = IF ok THEN context ELSE written
          /\ log' = log \o <<IF ok THEN "Content written to" ELSE "Error writing to file",
                             "Content generated.">>
    /\ exitCode' = 0
    /\ pc' = "exit"
    /\ UNCHANGED <<proceed, fs, gitignore, options, configFile, config, ig, allFiles, includedFiles,
                   ctxFiles, context, envSteps, input, result>>

\* Another process creates or rewrites a file, removes one, or takes the read
\* permission away: between a glob and its filter, or while the prompt waits
\* (a change at any other moment is seen by the run as one of these, as a
\* different directory at the start, or not at all).
EnvChange ==
    /\ pc \in {"filter1", "prompt", "filter2"}
    /\ envSteps < MaxEnvSteps
    /\ envSteps' = envSteps + 1
    /\ \E p \in EnvFiles :
          \/ \E n \in Sizes : fs[p].content # Blob(n) /\ fs' = [fs EXCEPT ![p] = File(Blob(n))]
          \/ fs[p].kind = "file" /\ fs' = [fs EXCEPT ![p] = Absent]
          \/ fs[p].kind = "file" /\ fs[p].readable /\ fs' = [fs EXCEPT ![p].readable = FALSE]
    /\ UNCHANGED <<proceed, gitignore, options, configFile, config, pc, ig, allFiles, includedFiles,
                   ctxFiles, context, written, log, exitCode, input, result>>

Next ==
    \/ Start
    \/ GlobDone
    \/ FilterAndShow
    \/ Answer
    \/ GlobAgain
    \/ Assemble
    \/ WriteToFile
    \/ EnvChange

Spec == Init /\ [][Next]_vars

(***************************************************************************)
(* Reading a document back: a document is the sequence of the texts that   *)
(* generateCodeContext appended; the per-file texts start at the sixth.    *)
(***************************************************************************)
IsBlock(chunk) == chunk # <<>> /\ Head(chunk) \in {"<file path=\"", "[fence]"}

IsErrorLine(chunk) == chunk # <<>> /\ Head(chunk) = "Error reading file "

\* The path a per-file text names: the atoms after the first one, up to the
\* atom that ends the path, without the separators.
ChunkPath(chunk) ==
    LET stops == {i \in 2..Len(chunk) : chunk[i] \in {"\">", "\n", ": "}}
        stop == CHOOSE i \in stops : \A j \in stops : i <= j
        atoms == SubSeq(chunk, 2, stop - 1)
    IN SelectSeqBy(atoms, Range(atoms) \ {"/"})

FileChunks(doc) == {i \in 6..Len(doc) : TRUE}

BlockFiles(doc) == {ChunkPath(doc[i]) : i \in {j \in FileChunks(doc) : IsBlock(doc[j])}}

ErrorFiles(doc) ==
    {PathRelative(Cwd, ChunkPath(doc[i])) : i \in {j \in FileChunks(doc) : IsErrorLine(doc[j])}}

OutputPath == PathRelative(Cwd, PathResolve(options.output))

\* The list a filter step returns: main's, or generateCodeContext's.
Returned(at) == IF at = "filter1" THEN includedFiles ELSE ctxFiles

FilterReturns == pc \in {"filter1", "filter2"} /\ pc' \in {"prompt", "write"}

(***************************************************************************)
(* Claims about the run                                                    *)
(***************************************************************************)
Sound(f) ==
    /\ \E i \in 1..Len(GlobPattern(config)) : GlobMatch(GlobPattern(config)[i], f)
    /\ ~Ignores(ig, f)
    /\ fs[f].kind = "file" /\ Len(fs[f].content) <= config.maxFileSize
    /\ Range(Front(f)) \cap Collapsed = {}

\* C1: every path that getIncludedFiles returns matches an include pattern
\* (the default **/* when the list is empty), is not ignored by the ruleset,
\* has a size of at most maxFileSize when it is measured, and lies under no
\* node_modules or .git directory.
C1_SelectionSound ==
    [][FilterReturns => \A f \in Range(Returned(pc)') : Sound(f)]_vars

\* A selection that kept a file and dropped others for each reason: ignored by
\* a rule, too large, under node_modules.
C1_Witness ==
    /\ pc = "prompt" /\ envSteps = 0
    /\ includedFiles # <<>>
    /\ \E f \in Range(allFiles) : Ignores(ig, f)
    /\ \E f \in Range(allFiles) : ~Ignores(ig, f) /\ Len(fs[f].content) > config.maxFileSize
    /\ config.exclude = <<>> /\ fs[<<"node_modules", "x.js">>].kind = "file"

\* C2: the output file, however its path is written after -o, is never in a
\* list that getIncludedFiles returns and never gets a content block.
C2_SelfExclusion ==
    /\ OutputPath \notin Range(includedFiles)
    /\ OutputPath \notin Range(ctxFiles)
    /\ OutputPath \notin BlockFiles(context)

\* C3: a path of the glob expansion that is gone when its size is read counts
\* as excluded: the filter completes and returns the qualifying paths that
\* are still there.
C3_VanishedPathExcluded ==
    [][(pc \in {"filter1", "filter2"} /\ pc' # pc) =>
          LET still == SelectSeqBy(allFiles,
                          {f \in Range(allFiles) : ExistsSync(PathJoin(Cwd, f))})
          IN /\ FilterReturns
             /\ Returned(pc)' = FilterIncluded(Cwd, config, ig, still)]_vars

\* C4: once the selection is made, assembly never aborts: the document holds
\* the three sections and then one text per selected file in selector order,
\* a content block for a file that can be read and, for one that cannot, an
\* error line with the file's path and the reason.
C4_ReadFailureInline ==
    [][(pc = "filter2" /\ pc' # pc /\ ~StatThrows(Cwd, allFiles)) =>
          /\ pc' = "write"
          /\ Len(context') = 5 + Len(ctxFiles')
          /\ <<context'[1][1], context'[3][2], context'[5][2]>>
                = <<"Full File Tree:", "Included Files:", "Code Context:">>
          /\ \A i \in 1..Len(ctxFiles') :
                LET f == ctxFiles'[i]
                    chunk == context'[5 + i]
                    reason == ReadError(PathJoin(Cwd, f))
                IN IF reason = None
                   THEN IsBlock(chunk) /\ ChunkPath(chunk) = f
                   ELSE /\ IsErrorLine(chunk)
                        /\ ChunkPath(chunk) = PathJoin(Cwd, f)
                        /\ reason \in Range(chunk)]_vars

\* A document in which an error line is followed by another file's block.
C4_Witness ==
    /\ pc = "write"
    /\ \E i, j \in FileChunks(context) : i < j /\ IsErrorLine(context[i]) /\ IsBlock(context[j])

\* C5: after a failed write the run does not report that the content was
\* generated, and it ends as a failed run.
C5_WriteFailureTerminates ==
    (pc = "exit" /\ "Error writing to file" \in Range(log)) =>
        ("Content generated." \notin Range(log) /\ exitCode # 0)

ParseInt(text) ==
    CASE text = "1" -> 1
      [] text = "2" -> 2
      [] text = "100" -> 100

\* program.opts(): a flag that is not given has its default, and the flags
\* -i and -e have none.
ProgramOpts(cli) ==
    [config |-> "codewise.json",
     output |-> <<"codewise-output.md">>,
     format |-> IF "format" \in cli.given THEN cli.format ELSE "markdown",
     maxSize |-> IF "maxSize" \in cli.given THEN cli.maxSize ELSE "100",
     include |-> IF "include" \in cli.given THEN cli.include ELSE <<>>,
     exclude |-> IF "exclude" \in cli.given THEN cli.exclude ELSE <<>>,
     given |-> cli.given \cap {"include", "exclude"}]

\* { ...DEFAULT_CONFIG, ...JSON.parse(configFile) }, and DEFAULT_CONFIG when
\* the file is missing or is not JSON.
LoadConfig(file) ==
    IF file.state = "object"
    THEN [k \in DOMAIN DEFAULT_CONFIG |->
            IF k \in file.keys THEN file.value[k] ELSE DEFAULT_CONFIG[k]]
    ELSE DEFAULT_CONFIG

\* A string option is truthy unless it is empty.
TruthyText(text) == text # ""

ApplyOverrides(cfg, opts) ==
    [outputFormat |-> IF TruthyText(opts.format) THEN opts.format ELSE cfg.outputFormat,
     maxFileSize |-> IF TruthyText(opts.maxSize) THEN ParseInt(opts.maxSize) * 1024
                     ELSE cfg.maxFileSize,
     include |-> IF "include" \in opts.given THEN opts.include ELSE cfg.include,
     exclude |-> IF "exclude" \in opts.given THEN cfg.exclude \o opts.exclude
                 ELSE cfg.exclude]

CommandLines ==
    [given : SUBSET {"format", "maxSize", "include", "exclude"},
     format : {"xml", "markdown"}, maxSize : {"1", "2"},
     include : {<< <<"*.ts">> >>}, exclude : {<< <<"dist", "**">> >>}]

ConfigFiles ==
    [state : {"missing", "malformed"}, keys : {{}}, value : {DEFAULT_CONFIG}]
    \cup
    [state : {"object"},
     keys : SUBSET {"outputFormat", "maxFileSize", "include", "exclude"},
     value : [outputFormat : {"xml", "markdown"}, maxFileSize : {2048},
              include : {<< <<"src", "**">> >>}, exclude : {<< <<"*.log">> >>}]]

Unused ==
    /\ Idle
    /\ fs = <<>> /\ gitignore = <<>>

InitConfig ==
    /\ input \in CommandLines
    /\ "format" \notin input.given => input.format = "markdown"
    /\ "maxSize" \notin input.given => input.maxSize = "1"
    /\ options = ProgramOpts(input)
    /\ configFile \in ConfigFiles
    /\ config = DEFAULT_CONFIG
    /\ pc = "load"
    /\ Unused
    /\ result = <<>>

\* const config = await loadConfig(options.config)
LoadConfigFile ==
    /\ pc = "load"
    /\ config' = LoadConfig(configFile)
    /\ pc' = "merge"
    /\ UNCHANGED <<fs, gitignore, options, configFile, ig, allFiles, includedFiles, proceed,
                   ctxFiles, context, written, log, exitCode, envSteps, input, result>>

\* The four ifs of main that follow.
OverrideConfig ==
    /\ pc = "merge"
    /\ config' = ApplyOverrides(config, options)
    /\ pc' = "ready"
    /\ UNCHANGED <<fs, gitignore, options, configFile, ig, allFiles, includedFiles, proceed,
                   ctxFiles, context, written, log, exitCode, envSteps, input, result>>

NextConfig ==
    \/ LoadConfigFile
    \/ OverrideConfig

SpecConfig == InitConfig /\ [][NextConfig]_vars

\* What the documentation promises for a key: the command line, else the file,
\* else the default.
Documented(key, flag, fromCli) ==
    IF flag \in input.given THEN fromCli
    ELSE IF configFile.state = "object" /\ key \in configFile.keys THEN configFile.value[key]
    ELSE DEFAULT_CONFIG[key]

\* C6: for outputFormat, maxFileSize and include, the effective value is the
\* command line's when the flag is given, else the JSON file's when the file
\* sets it, else the default.
C6_Precedence ==
    pc = "ready" =>
        /\ config.outputFormat = Documented("outputFormat", "format", input.format)
        /\ config.maxFileSize = Documented("maxFileSize", "maxSize", ParseInt(input.maxSize) * 1024)
        /\ config.include = Documented("include", "include", input.include)

(***************************************************************************)
(* Reading a rendered tree back                                            *)
(***************************************************************************)
Depth(line) == Len(line) - 2

\* The path of the entry that line i draws: its name under the path of the
\* nearest line above it that is one level up.
RECURSIVE LinePath(_, _)
LinePath(lines, i) ==
    IF Depth(lines[i]) = 0 THEN <<Last(lines[i])>>
    ELSE LET above == {j \in 1..(i - 1) : Depth(lines[j]) = Depth(lines[i]) - 1}
             parent == CHOOSE j \in above : \A k \in above : k <= j
         IN LinePath(lines, parent) \o <<Last(lines[i])>>

IsPlaceholder(line) == Last(line) = "..."

\* The line that the code draws under the collapsed directory of line.
PlaceholderUnder(line) ==
    SubSeq(line, 1, Len(line) - 2)
        \o <<Continuation(line[Len(line) - 1] = "+-- "), "+-- ", "...">>

(***************************************************************************)
(* The full tree of a directory                                            *)
(***************************************************************************)
TreeDirs ==
    {<<"node_modules">>, <<".git">>, <<"src">>, <<"src", "node_modules">>, <<"dist">>,
     <<"dist", ".git">>}

TreeFiles ==
    {<<"a.ts">>, <<"node_modules", "x.js">>, <<".git", "config">>, <<"src", "b.ts">>,
     <<"src", "node_modules", "y.js">>, <<"dist", "o.js">>, <<"dist", ".git", "config">>}

TreeExcludes ==
    {DefaultExclude, <<>>, << <<"src">> >>,
     << <<"node_modules">>, <<".git">>, <<"dist", "**">> >>, << <<"dist">> >>}

InitTree ==
    /\ \E present \in SUBSET (TreeDirs \cup TreeFiles) :
          /\ \A p \in present : Len(p) > 1 => Front(p) \in present
          /\ fs = [p \in TreeDirs \cup TreeFiles |->
                      IF p \notin present THEN Absent
                      ELSE IF p \in TreeDirs THEN Dir ELSE File(Blob(1))]
    /\ gitignore = <<>>
    /\ \E e \in TreeExcludes : config = [DEFAULT_CONFIG EXCEPT !.exclude = e]
    /\ options = DefaultOptions
    /\ configFile = None
    /\ pc = "tree"
    /\ Idle
    /\ input = <<>> /\ result = <<>>

\* createIgnore(config, options.output), then generateFullFileTree(cwd, ig)
RenderFullTree ==
    /\ pc = "tree"
    /\ ig' = CreateIgnore(config, options.output)
    /\ result' = GenerateFullFileTree(Cwd, ig', <<>>)
    /\ pc' = "rendered"
    /\ UNCHANGED <<fs, gitignore, options, configFile, config, allFiles, includedFiles,
                   proceed, ctxFiles, context, written, log, exitCode, envSteps, input>>

NextTree == RenderFullTree

SpecTree == InitTree /\ [][NextTree]_vars

\* The walk reaches a directory when every directory above it is expanded:
\* neither collapsed nor ignored.
Reached(p) ==
    \A n \in 1..(Len(p) - 1) :
        ~IsCollapsed(p[n]) /\ ~Ignores(ig, SubSeq(p, 1, n))

CollapsedDirs == {p \in DOMAIN fs : fs[p].kind = "dir" /\ Last(p) \in Collapsed}

\* C7: every node_modules or .git directory that the walk reaches, ignored or
\* not, has its line, followed by one "..." line a level deeper and by nothing
\* else of its own; no line draws an entry of such a directory.
C7_CollapsedDirectories ==
    pc = "rendered" =>
        /\ \A p \in CollapsedDirs :
              Reached(p) => \E i \in 1..Len(result) : LinePath(result, i) = p
        /\ \A i \in 1..Len(result) :
              LinePath(result, i) \in CollapsedDirs =>
                  /\ i < Len(result)
                  /\ result[i + 1] = PlaceholderUnder(result[i])
                  /\ i + 2 <= Len(result) => Depth(result[i + 2]) <= Depth(result[i])
        /\ \A i \in 1..Len(result) :
              ~IsPlaceholder(result[i]) =>
                  Range(Front(LinePath(result, i))) \cap Collapsed = {}

\* A tree with a collapsed directory at the root that the rules ignore, and
\* one that is not empty a level down.
C7_Witness ==
    /\ pc = "rendered"
    /\ fs[<<"src", "node_modules", "y.js">>].kind = "file"
    /\ fs[<<".git", "config">>].kind = "file"
    /\ fs[<<"node_modules">>].kind = "dir" /\ Ignores(ig, <<"node_modules">>)
    /\ \E i \in 1..Len(result) : LinePath(result, i) = <<"src", "node_modules">>
    /\ \E i \in 1..Len(result) : LinePath(result, i) = <<".git">>

(***************************************************************************)
(* One file's text.  input is the file's path, the content is in fs.       *)
(***************************************************************************)
Characters == {"x", "]", ">"}

Contents == UNION {[1..n -> Characters] : n \in 0..MaxLen}

InitContent ==
    /\ input \in {<<"a.ts">>, <<"src", "b.ts">>}
    /\ \E content \in Contents :
          fs = (input :> File(content)) @@ (<<"src">> :> Dir)
    /\ gitignore = <<>>
    /\ \E f \in {"xml", "markdown"} : config = [DEFAULT_CONFIG EXCEPT !.outputFormat = f]
    /\ options = DefaultOptions
    /\ configFile = None
    /\ pc = "content"
    /\ Idle
    /\ result = <<>>

\* getFileContent(path.join(dir, filePath), config)
FormatFile ==
    /\ pc = "content"
    /\ result' = GetFileContent(PathJoin(Cwd, input), config)
    /\ pc' = "formatted"
    /\ UNCHANGED <<fs, gitignore, options, configFile, config, ig, allFiles, includedFiles,
                   proceed, ctxFiles, context, written, log, exitCode, envSteps, input>>

NextContent == FormatFile

SpecContent == InitContent /\ [][NextContent]_vars

Occurs(text, at, word) ==
    at + Len(word) - 1 <= Len(text) /\ SubSeq(text, at, at + Len(word) - 1) = word

\* The first place at or after from where word occurs in text, 0 when none.
Find(text, from, word) ==
    LET places == {i \in from..Len(text) : Occurs(text, i, word)}
    IN IF places = {} THEN 0 ELSE CHOOSE i \in places : \A j \in places : i <= j

\* What an XML reader gets out of the CDATA section of the block of path: the
\* characters after the opening marker up to the first closing marker, less
\* the line break that the template puts at each end.
ExtractCData(text, path) ==
    LET tag == Find(text, 1, <<"<file path=\"">> \o PathText(path) \o <<"\">">>)
        open == Find(text, tag, CDataOpen)
        close == Find(text, open + Len(CDataOpen), CDataClose)
        inner == SubSeq(text, open + Len(CDataOpen), close - 1)
    IN IF Len(inner) >= 2 /\ Head(inner) = "\n" /\ Last(inner) = "\n"
       THEN SubSeq(inner, 2, Len(inner) - 1)
       ELSE inner

\* C8: in XML mode the inner text of the CDATA section of a file's block is
\* the file's content.
C8_XmlRoundTrip ==
    (pc = "formatted" /\ config.outputFormat = "xml") =>
        ExtractCData(result, input) = fs[input].content

(***************************************************************************)
(* The inclusion tree.  input is the list of included paths.               *)
(***************************************************************************)
FormatNames == {"b", "a", "2", "10", "constructor"}

FormatPaths ==
    {<<n>> : n \in FormatNames} \cup {<<d, n>> : d \in {"a", "constructor"}, n \in {"b", "2", "1"}}

\* The lists a selection can return: each path once, and no path that is both
\* a file and a directory.
FileLists ==
    {l \in UNION {[1..n -> FormatPaths] : n \in 0..MaxFiles} :
        \A i, j \in 1..Len(l) : i # j => ~IsPrefix(l[i], l[j])}

InitFormat ==
    /\ input \in FileLists
    /\ fs = <<>> /\ gitignore = <<>>
    /\ config = DEFAULT_CONFIG
    /\ options = DefaultOptions
    /\ configFile = None
    /\ pc = "format"
    /\ Idle
    /\ result = <<>>

\* formatIncludedFiles(includedFiles)
FormatList ==
    /\ pc = "format"
    /\ result' = FormatIncludedFiles(input)
    /\ pc' = "drawn"
    /\ UNCHANGED <<fs, gitignore, options, configFile, config, ig, allFiles, includedFiles,
                   proceed, ctxFiles, context, written, log, exitCode, envSteps, input>>

NextFormat == FormatList

SpecFormat == InitFormat /\ [][NextFormat]_vars

\* Where the list first names an entry: the least index of a path under it.
FirstOccurrence(entry) ==
    LET under == {k \in 1..Len(input) : IsPrefix(entry, input[k])}
    IN IF under = {} THEN 0 ELSE CHOOSE k \in under : \A m \in under : k <= m

IsLeafLine(lines, i) == i = Len(lines) \/ Depth(lines[i + 1]) <= Depth(lines[i])

\* C9: under each directory the siblings are drawn in the order of their first
\* occurrence in the list, and the root-to-leaf paths of the drawing are the
\* paths of the list.
C9_InsertionOrder ==
    pc = "drawn" =>
        /\ \A i, j \in 1..Len(result) :
              (i < j /\ Front(LinePath(result, i)) = Front(LinePath(result, j))) =>
                  FirstOccurrence(LinePath(result, i)) < FirstOccurrence(LinePath(result, j))
        /\ {LinePath(result, i) : i \in {k \in 1..Len(result) : IsLeafLine(result, k)}}
              = Range(input)

====
